---- MODULE Spec2Model ----
(***************************************************************************)
(* Police Case Simulator: the two Streamlit variants                       *)
(*   src/streamlit_case_sim.py                         ("shuffled")        *)
(*   src/police case simulation/streamlit_case_sim.py  ("plain")           *)
(* A Streamlit script is re-executed top to bottom on every user event;    *)
(* st.session_state is the only state that survives between runs.  One     *)
(* action of this model is one user event together with the complete       *)
(* script run it triggers, st.rerun() included.                            *)
(*                                                                         *)
(* Session keys are Python strings.  They are modelled as sequences of     *)
(* tokens ("case::", the tokens of the file name, "::", the field name,    *)
(* and for the shuffle cache the decimal stage index), so that             *)
(* str.startswith is the prefix test on token sequences.                   *)
(* score is a Python float counted here in half points (1.0 is 2).         *)
(* The console script src/case_simulator_console.py is the third program:  *)
(* variant = "console" runs it, one action per answer read.                *)
(* The display-only texts of a stage (info, question, next_info) are       *)
(* copied verbatim by the code and are left out of the records.            *)
(***************************************************************************)
EXTENDS Integers, Sequences, FiniteSets, TLC

\* ---------------------------------------------------------------- bounds
MaxAttempts == 2
MaxAnswer == 2

\* ------------------------------------------------------------- constants
FullCredit == 2
HalfCredit == 1

NoChoice == "<None>"

\* ------------------------------------------------------ case directory
NameA == <<"a.json">>
NameB == <<"a.json", "::", "shuffled_options_", "b.json">>
CaseFiles == {NameA, NameB}

Stage(o, c, f) == [options |-> o, correct |-> c, feedback_wrong |-> f]
Case(d, t, s, st) == [isDict |-> d, hasTitle |-> t, hasStages |-> s, stages |-> st]

EmptyCase == Case(TRUE, TRUE, TRUE, <<>>)
TwoStageCase == Case(TRUE, TRUE, TRUE,
                     << Stage(<<"A", "B">>, 0, "h0"),
                        Stage(<<"X", "Y">>, 1, "h1") >>)
DupCase == Case(TRUE, TRUE, TRUE, << Stage(<<"A", "B", "A">>, 2, "h0") >>)
BadCorrectCase == Case(TRUE, TRUE, TRUE, << Stage(<<"A", "B">>, 5, "h0") >>)
NoOptionsCase == Case(TRUE, TRUE, TRUE, << Stage(<<>>, -1, "h0") >>)
NoTitleCase == Case(TRUE, FALSE, TRUE, <<>>)
NoStagesCase == Case(TRUE, TRUE, FALSE, <<>>)
NotDictCase == Case(FALSE, FALSE, FALSE, <<>>)

CaseContents == {EmptyCase, TwoStageCase, DupCase, BadCorrectCase,
                 NoOptionsCase, NoTitleCase, NoStagesCase, NotDictCase}

Variants == {"shuffled", "plain"}

VARIABLES ss, selected, page, ev, cases, variant,
          ccase, cpc, ci, cscore, cin, creads
session == <<ss, selected, page, ev, cases>>
console == <<ccase, cpc, ci, cscore, cin, creads>>
vars == <<ss, selected, page, ev, cases, variant, ccase, cpc, ci, cscore, cin, creads>>

\* --------------------------------------------------------- Python helpers
Digits == <<"0", "1", "2", "3", "4", "5", "6", "7", "8", "9">>
Str(i) == Digits[i + 1]

Range(s) == {s[i] : i \in 1..Len(s)}

\* list.index(x): 0-based position of the first occurrence, -1 for ValueError
IndexOf(s, x) ==
    IF \E i \in 1..Len(s) : s[i] = x
    THEN (CHOOSE i \in 1..Len(s) : s[i] = x /\ \A j \in 1..(i - 1) : s[j] # x) - 1
    ELSE -1

\* list[i] with Python's negative indices; IndexError outside [-len, len)
PyIndexOK(s, i) == -Len(s) <= i /\ i < Len(s)
PyItem(s, i) == IF i >= 0 THEN s[i + 1] ELSE s[Len(s) + i + 1]

StartsWith(k, p) == Len(k) >= Len(p) /\ SubSeq(k, 1, Len(p)) = p

\* dict.get(key, default)
DictGet(d, k, default) == IF k \in DOMAIN d THEN d[k] ELSE default

\* d[k] = v on a dict
DictPut(d, k, v) == [x \in (DOMAIN d) \cup {k} |-> IF x = k THEN v ELSE d[x]]

\* del d[k] for every k in ks
DictDel(d, ks) == [x \in (DOMAIN d) \ ks |-> d[x]]

EmptyDict == [x \in {} |-> 0]

\* random.shuffle: any ordering of the list
Perms(n) == {p \in [1..n -> 1..n] : \A i, j \in 1..n : p[i] = p[j] => i = j}
Shuffles(opts) == {[i \in 1..Len(opts) |-> opts[p[i]]] : p \in Perms(Len(opts))}

\* ------------------------------------------------------------ session keys
\* a prefix that forgets the file name
state_prefix_shared(name) == <<"case::", "::">>

state_prefix(name) == <<"case::">> \o name \o <<"::">>

sget(s, name, key, default) == DictGet(s, state_prefix(name) \o <<key>>, default)

sset(s, name, key, val) == DictPut(s, state_prefix(name) \o <<key>>, val)

ShuffleKey(name, i) == state_prefix(name) \o <<"shuffled_options_", Str(i)>>
CorrectKey(name, i) == state_prefix(name) \o <<"shuffled_correct_", Str(i)>>

\* last_submitted_idx holds None or an int: <<>> is None, <<i>> is i
Defaults ==
    << <<"stage_idx", 0>>, <<"score", 0>>, <<"history", <<>> >>,
       <<"attempts", EmptyDict>>, <<"stage_solved", FALSE>>,
       <<"stage_recorded", EmptyDict>>, <<"last_hint", "">>,
       <<"last_submitted_idx", <<>> >>, <<"just_submitted", FALSE>> >>

DefaultOf(key) == (CHOOSE i \in 1..Len(Defaults) : Defaults[i][1] = key)

FieldNames == {Defaults[i][1] : i \in 1..Len(Defaults)}

\* "if sget(k) is None: sset(k, default)" for each of the nine fields
InitDefaults(s, name) ==
    LET pre == state_prefix(name)
        new == {pre \o <<f>> : f \in FieldNames}
    IN  [k \in (DOMAIN s) \cup new |->
            IF k \in DOMAIN s THEN s[k]
            ELSE Defaults[DefaultOf(k[Len(k)])][2]]

\* a reset that leaves the shuffle caches in place
reset_keep_shuffle(s, name) ==
    LET new == {state_prefix(name) \o <<f>> : f \in FieldNames}
    IN  [k \in (DOMAIN s) \cup new |->
            IF k \in new THEN Defaults[DefaultOf(k[Len(k)])][2] ELSE s[k]]

\* the shuffled variant first deletes every key that starts with the prefix
\* of one of the two shuffle caches; both variants then store the defaults
reset_case_state(s, name) ==
    LET pre == state_prefix(name)
        keys_to_remove ==
            IF variant = "shuffled"
            THEN {k \in DOMAIN s :
                     \/ StartsWith(k, pre \o <<"shuffled_options_">>)
                     \/ StartsWith(k, pre \o <<"shuffled_correct_">>)}
            ELSE {}
        s1 == DictDel(s, keys_to_remove)
        new == {pre \o <<f>> : f \in FieldNames}
    IN  [k \in (DOMAIN s1) \cup new |->
            IF k \in new THEN Defaults[DefaultOf(k[Len(k)])][2] ELSE s1[k]]

\* ------------------------------------------------------------- validation
\* a validation that forgets the title
StructureOKNoTitle(c) == c.isDict /\ c.hasStages

StructureOK(c) == c.isDict /\ c.hasStages /\ c.hasTitle

\* ------------------------------------------------------------ stage UI
\* index used for the correct option after a shuffle
ShuffledCorrectIdx(orig_options, options_shuffled, orig_correct_idx) ==
    IF 0 <= orig_correct_idx /\ orig_correct_idx < Len(orig_options)
    THEN IndexOf(options_shuffled, orig_options[orig_correct_idx + 1])
    ELSE 0

\* a shuffle on every run, cached or not
ShuffleAlways(s, name, stage, stage_idx) ==
    IF variant # "shuffled"
    THEN {s}
    ELSE {DictPut(DictPut(s, ShuffleKey(name, stage_idx), o),
                  CorrectKey(name, stage_idx),
                  ShuffledCorrectIdx(stage.options, o, stage.correct))
            : o \in Shuffles(stage.options)}

\* the shuffle is made and cached only when the key is absent
ShuffleOnce(s, name, stage, stage_idx) ==
    IF variant # "shuffled" \/ ShuffleKey(name, stage_idx) \in DOMAIN s
    THEN {s}
    ELSE {DictPut(DictPut(s, ShuffleKey(name, stage_idx), o),
                  CorrectKey(name, stage_idx),
                  ShuffledCorrectIdx(stage.options, o, stage.correct))
            : o \in Shuffles(stage.options)}

\* the option list and the correct index the rest of the run works with
Options(s, name, stage, stage_idx) ==
    IF variant = "shuffled" THEN s[ShuffleKey(name, stage_idx)] ELSE stage.options

CorrectIdx(s, name, stage, stage_idx) ==
    IF variant = "shuffled" THEN s[CorrectKey(name, stage_idx)] ELSE stage.correct

\* the Next Stage button shown whatever stage_solved holds
SolvedBranchAlways(s, name) == TRUE

\* the submission form shown whatever stage_solved holds
SolvedBranchNever(s, name) == FALSE

SolvedBranch(s, name) == sget(s, name, "stage_solved", FALSE)

\* a recording step without the stage_recorded guard
NeedsRecordAlways(s, name, stage_idx) == TRUE

NeedsRecord(s, name, stage_idx) ==
    ~ DictGet(sget(s, name, "stage_recorded", EmptyDict), Str(stage_idx), FALSE)

\* a count of the attempts made before the successful one
AttemptsBeforeSuccess(s, name, stage_idx) ==
    LET n == Len(DictGet(sget(s, name, "attempts", EmptyDict), Str(stage_idx), <<>>))
    IN  IF n > 0 THEN n - 1 ELSE 0

AttemptsCount(s, name, stage_idx) ==
    Len(DictGet(sget(s, name, "attempts", EmptyDict), Str(stage_idx), <<>>))

\* a record put at the front of the history
RecordStageFront(s, name, stage_idx, options, correct_idx) ==
    LET rec == [stage_idx |-> stage_idx,
                chosen |-> PyItem(options, correct_idx),
                chosen_idx |-> correct_idx,
                correct |-> TRUE,
                attempts_count |-> AttemptsCount(s, name, stage_idx)]
        s1 == sset(s, name, "history", <<rec>> \o sget(s, name, "history", <<>>))
    IN  sset(s1, name, "stage_recorded",
             DictPut(sget(s1, name, "stage_recorded", EmptyDict), Str(stage_idx), TRUE))

\* append the history record of the solved stage and mark it recorded
RecordStage(s, name, stage_idx, options, correct_idx) ==
    LET rec == [stage_idx |-> stage_idx,
                chosen |-> PyItem(options, correct_idx),
                chosen_idx |-> correct_idx,
                correct |-> TRUE,
                attempts_count |-> AttemptsCount(s, name, stage_idx)]
        s1 == sset(s, name, "history", Append(sget(s, name, "history", <<>>), rec))
    IN  sset(s1, name, "stage_recorded",
             DictPut(sget(s1, name, "stage_recorded", EmptyDict), Str(stage_idx), TRUE))

\* a Next Stage that leaves the shuffle cache of the stage in place
NextStageKeepsCache(s, name, stage_idx) ==
    LET s1 == sset(s, name, "stage_idx", stage_idx + 1)
        s2 == sset(s1, name, "stage_solved", FALSE)
        s3 == sset(s2, name, "last_hint", "")
        s4 == sset(s3, name, "last_submitted_idx", <<>>)
    IN  sset(s4, name, "just_submitted", FALSE)

\* a Next Stage that leaves stage_solved set
NextStageKeepsSolved(s, name, stage_idx) ==
    LET s0 == IF variant = "shuffled"
              THEN DictDel(s, {ShuffleKey(name, stage_idx), CorrectKey(name, stage_idx)})
              ELSE s
        s1 == sset(s0, name, "stage_idx", stage_idx + 1)
        s3 == sset(s1, name, "last_hint", "")
        s4 == sset(s3, name, "last_submitted_idx", <<>>)
    IN  sset(s4, name, "just_submitted", FALSE)

\* the body of the Next Stage button
NextStage(s, name, stage_idx) ==
    LET s0 == IF variant = "shuffled"
              THEN DictDel(s, {ShuffleKey(name, stage_idx), CorrectKey(name, stage_idx)})
              ELSE s
        s1 == sset(s0, name, "stage_idx", stage_idx + 1)
        s2 == sset(s1, name, "stage_solved", FALSE)
        s3 == sset(s2, name, "last_hint", "")
        s4 == sset(s3, name, "last_submitted_idx", <<>>)
    IN  sset(s4, name, "just_submitted", FALSE)

\* the attempt is recorded before it is judged
RecordAttempt(s, name, stage_idx, selected_idx) ==
    LET at == sget(s, name, "attempts", EmptyDict)
        s1 == sset(s, name, "attempts",
                   DictPut(at, Str(stage_idx),
                           Append(DictGet(at, Str(stage_idx), <<>>), selected_idx)))
        s2 == sset(s1, name, "last_submitted_idx", <<selected_idx>>)
    IN  sset(s2, name, "just_submitted", TRUE)

Judge(selected_idx, correct_idx) == selected_idx = correct_idx

\* a correct answer credited with half a point
MarkCorrectHalf(s, name) ==
    LET s1 == sset(s, name, "score", sget(s, name, "score", 0) + 1)
        s2 == sset(s1, name, "stage_solved", TRUE)
    IN  sset(s2, name, "last_hint", "")

MarkCorrect(s, name) ==
    LET s1 == sset(s, name, "score", sget(s, name, "score", 0) + FullCredit)
        s2 == sset(s1, name, "stage_solved", TRUE)
    IN  sset(s2, name, "last_hint", "")

\* an incorrect answer that leaves the hint as it was
MarkIncorrectNoHint(s, name, stage) == s

MarkIncorrect(s, name, stage) == sset(s, name, "last_hint", stage.feedback_wrong)

\* lines 230-260: the session state a submission leaves, before any rerun
SubmitEffect(s, name, stage, stage_idx, options, correct_idx, choice) ==
    LET selected_idx == IndexOf(options, choice)
        s1 == RecordAttempt(s, name, stage_idx, selected_idx)
    IN  IF Judge(selected_idx, correct_idx)
        THEN MarkCorrect(s1, name)
        ELSE MarkIncorrect(s1, name, stage)

Out(s, p) == [st |-> s, page |-> p]

RECURSIVE Script(_, _, _, _)

\* lines 136-260 (shuffled) / 128-213 (plain) for one outcome of the shuffle
StageBody(s, name, stage, stage_idx, e, choice) ==
    LET options == Options(s, name, stage, stage_idx)
        correct_idx == CorrectIdx(s, name, stage, stage_idx)
    IN  IF SolvedBranch(s, name)
        THEN IF NeedsRecord(s, name, stage_idx) /\ ~ PyIndexOK(options, correct_idx)
             THEN {Out(s, {"reset"})}                     \* IndexError ends the run
             ELSE LET s1 == IF NeedsRecord(s, name, stage_idx)
                            THEN RecordStage(s, name, stage_idx, options, correct_idx)
                            ELSE s
                  IN  IF e = "next"
                      THEN Script(NextStage(s1, name, stage_idx), name, "none", NoChoice)
                      ELSE {Out(s1, {"reset", "next"})}
        ELSE IF e = "submit"
             THEN LET s1 == SubmitEffect(s, name, stage, stage_idx,
                                         options, correct_idx, choice)
                  IN  IF Judge(IndexOf(options, choice), correct_idx)
                      THEN Script(s1, name, "none", NoChoice)    \* st.rerun()
                      ELSE {Out(s1, {"reset", "form"})}
             ELSE {Out(s, {"reset", "form"})}

StageUI(s, name, stage, stage_idx, e, choice) ==
    UNION {StageBody(s1, name, stage, stage_idx, e, choice)
             : s1 \in ShuffleOnce(s, name, stage, stage_idx)}

\* one execution of the script for the selected file `name`; e is the widget
\* that fired ("none" for a plain re-run), choice the value of the radio
Script(s, name, e, choice) ==
    LET case == cases[name] IN
    IF ~ StructureOK(case)
    THEN {Out(s, {})}                                       \* st.stop()
    ELSE LET s1 == InitDefaults(s, name) IN
         IF e = "reset"
         THEN Script(reset_case_state(s1, name), name, "none", NoChoice)
         ELSE LET stage_idx == sget(s1, name, "stage_idx", 0)
                  stages == case.stages
              IN  IF stage_idx >= Len(stages)
                  THEN IF e = "restart"
                       THEN Script(reset_case_state(s1, name), name, "none", NoChoice)
                       ELSE {Out(s1, {"reset", "restart"})}
                  ELSE StageUI(s1, name, stages[stage_idx + 1], stage_idx, e, choice)

\* what st.radio can return for the displayed option list
RadioChoices(options) == IF options = <<>> THEN {NoChoice} ELSE Range(options)

\* the option list the form of the last run displayed
Displayed(s, name) ==
    LET stage_idx == sget(s, name, "stage_idx", 0)
    IN  Options(s, name, cases[name].stages[stage_idx + 1], stage_idx)

\* ------------------------------------------------------------------ actions
NoInput == [ok |-> FALSE, n |-> 0]

Run(name, e, choice) ==
    /\ variant \in Variants
    /\ \E o \in Script(ss, name, e, choice) : ss' = o.st /\ page' = o.page
    /\ selected' = name
    /\ ev' = e
    /\ UNCHANGED <<cases, variant, console>>

\* a browser session on one of the two Streamlit scripts, before its first run
InitSession ==
    /\ variant \in Variants
    /\ ss = EmptyDict
    /\ selected = NameA
    /\ page = {}
    /\ ev = "init"
    /\ cases \in [CaseFiles -> CaseContents]
    /\ ccase = EmptyCase /\ cpc = "off" /\ ci = 0 /\ cscore = 0
    /\ cin = NoInput /\ creads = 0

\* the console script started on its case file
InitConsole ==
    /\ variant = "console"
    /\ ss = EmptyDict
    /\ selected = NameA
    /\ page = {}
    /\ ev = "init"
    /\ cases = [f \in CaseFiles |-> EmptyCase]
    /\ ccase \in CaseContents /\ cpc = "start" /\ ci = 0 /\ cscore = 0
    /\ cin = NoInput /\ creads = 0

Init == InitSession \/ InitConsole

SelectCase == \E n \in CaseFiles \ {selected} : Run(n, "select", NoChoice)

Rerender == Run(selected, "none", NoChoice)

ResetClick == "reset" \in page /\ Run(selected, "reset", NoChoice)

RestartClick == "restart" \in page /\ Run(selected, "restart", NoChoice)

NextStageClick == "next" \in page /\ Run(selected, "next", NoChoice)

SubmitAnswer ==
    /\ "form" \in page
    /\ AttemptsCount(ss, selected, sget(ss, selected, "stage_idx", 0)) < MaxAttempts
    /\ \E choice \in RadioChoices(Displayed(ss, selected)) : Run(selected, "submit", choice)

\* ------------------------------------------------------ console script
\* what input() can deliver: a line int() parses to n, or one it rejects
Inputs == {[ok |-> TRUE, n |-> k] : k \in (-1)..MaxAnswer} \cup {[ok |-> FALSE, n |-> 0]}

\* int(input().strip()), -1 when it raises
ParseAnswer(inp) == IF inp.ok THEN inp.n ELSE -1

\* a retry credited like a first answer
RetryCreditFull(ans2, correct) == IF ans2 = correct THEN FullCredit ELSE 0

FirstCredit(ans, correct) == IF ans = correct THEN FullCredit ELSE 0

RetryCredit(ans2, correct) == IF ans2 = correct THEN HalfCredit ELSE 0

\* the for loop moves to the next stage, or ends and prints the score
ConsoleAdvance ==
    /\ ci' = ci + 1
    /\ cpc' = IF ci + 1 < Len(ccase.stages) THEN "first" ELSE "done"

\* lines 7-10: the title is printed and the loop over the stages entered
ConsoleStart ==
    /\ variant = "console" /\ cpc = "start"
    /\ cpc' = IF ~ StructureOK(ccase) THEN "crashed"
              ELSE IF Len(ccase.stages) = 0 THEN "done" ELSE "first"
    /\ UNCHANGED <<ci, cscore, cin, creads, ccase, variant, session>>

\* lines 17-27: the first answer of a stage
ConsoleFirst ==
    /\ variant = "console" /\ cpc = "first"
    /\ \E inp \in Inputs :
          LET stage == ccase.stages[ci + 1]
              ans == ParseAnswer(inp)
          IN  /\ cin' = inp
              /\ creads' = creads + 1
              /\ cscore' = cscore + FirstCredit(ans, stage.correct)
              /\ IF ans = stage.correct
                 THEN ConsoleAdvance
                 ELSE cpc' = "retry" /\ ci' = ci
    /\ UNCHANGED <<ccase, variant, session>>

\* lines 29-39: the single retry; a second wrong answer reveals
\* options[correct], which raises IndexError when correct is out of range
ConsoleRetry ==
    /\ variant = "console" /\ cpc = "retry"
    /\ \E inp \in Inputs :
          LET stage == ccase.stages[ci + 1]
              ans2 == ParseAnswer(inp)
          IN  /\ cin' = inp
              /\ creads' = creads + 1
              /\ cscore' = cscore + RetryCredit(ans2, stage.correct)
              /\ IF ans2 = stage.correct \/ PyIndexOK(stage.options, stage.correct)
                 THEN ConsoleAdvance
                 ELSE cpc' = "crashed" /\ ci' = ci
    /\ UNCHANGED <<ccase, variant, session>>

Next ==
    \/ SelectCase
    \/ Rerender
    \/ ResetClick
    \/ RestartClick
    \/ NextStageClick
    \/ SubmitAnswer
    \/ ConsoleStart
    \/ ConsoleFirst
    \/ ConsoleRetry

Spec == Init /\ [][Next]_vars

\* ================================================================ properties
\* projections of a session state s for the case file c
IdxOf(s, c) == sget(s, c, "stage_idx", 0)
ScoreOf(s, c) == sget(s, c, "score", 0)
SolvedOf(s, c) == sget(s, c, "stage_solved", FALSE)
HistoryOf(s, c) == sget(s, c, "history", <<>>)
AttemptsOf(s, c) == sget(s, c, "attempts", EmptyDict)
AttemptsAt(s, c, i) == DictGet(AttemptsOf(s, c), Str(i), <<>>)
HintOf(s, c) == sget(s, c, "last_hint", "")
Opened(s, c) == (state_prefix(c) \o <<"stage_idx">>) \in DOMAIN s
NStages(c) == Len(cases[c].stages)

StageIndices == 0..9

\* the session keys that belong to the case file c, and their values in s
OwnKeys(c) ==
    {state_prefix(c) \o <<f>> : f \in FieldNames}
        \cup {ShuffleKey(c, i) : i \in StageIndices}
        \cup {CorrectKey(c, i) : i \in StageIndices}
View(s, c) == [k \in OwnKeys(c) \cap DOMAIN s |-> s[k]]

\* a case the data model of the specification calls valid
ValidStage(st) ==
    Len(st.options) >= 1 /\ 0 <= st.correct /\ st.correct < Len(st.options)
ValidCase(c) ==
    StructureOK(cases[c]) /\ \A i \in 1..NStages(c) : ValidStage(cases[c].stages[i])

\* ------------------------------------------------------------------- C1
\* a step that submits, as the first attempt on the current stage of the
\* selected case, the text of the canonical correct option
FirstAttemptCorrect(c) ==
    /\ ev' = "submit" /\ selected' = c
    /\ IdxOf(ss, c) < NStages(c)
    /\ AttemptsAt(ss, c, IdxOf(ss, c)) = <<>>
    /\ LET i == IdxOf(ss, c)
           st == cases[c].stages[i + 1]
           a == AttemptsAt(ss', c, i)
       IN  /\ Len(a) = 1
           /\ a[1] >= 0
           /\ Options(ss, c, st, i)[a[1] + 1] = st.options[st.correct + 1]

PerfectRun(s, c) ==
    /\ Opened(s, c)
    /\ IdxOf(s, c) = NStages(c)
    /\ \A i \in 0..(NStages(c) - 1) : Len(AttemptsAt(s, c, i)) = 1

\* C1: in the shuffled simulator, for every valid case with N stages, a
\* correct first attempt solves the stage and offers Next Stage, Next Stage
\* moves to the following stage, and the run made of these steps only ends
\* with stage_idx = N, score = N * 1.0 and N history entries (N = 0 included:
\* the empty case is complete with score 0 as soon as it is opened).
C1_PerfectRunCompletes ==
    /\ [](\A c \in CaseFiles :
            (variant = "shuffled" /\ ValidCase(c) /\ PerfectRun(ss, c))
                => /\ ScoreOf(ss, c) = NStages(c) * FullCredit
                   /\ Len(HistoryOf(ss, c)) = NStages(c))
    /\ [][\A c \in CaseFiles :
            (variant = "shuffled" /\ ValidCase(c) /\ FirstAttemptCorrect(c))
                => /\ SolvedOf(ss', c)
                   /\ ScoreOf(ss', c) = ScoreOf(ss, c) + FullCredit
                   /\ "next" \in page']_vars
    /\ [][\A c \in CaseFiles :
            (variant = "shuffled" /\ ValidCase(c) /\ ev' = "next" /\ selected' = c)
                => IdxOf(ss', c) = IdxOf(ss, c) + 1]_vars

C1_Witness ==
    /\ variant = "shuffled"
    /\ cases[selected] = TwoStageCase
    /\ PerfectRun(ss, selected)
    /\ ev = "next"
    /\ ScoreOf(ss, selected) = 2 * FullCredit

\* ------------------------------------------------------------------- C2
\* C2: in both variants stage_idx of a case grows only by one, only in a
\* Next Stage step on that case, and only from a state where stage_solved
\* was true.
C2_AdvanceOnlyWhenSolved ==
    [][\A c \in CaseFiles :
          IdxOf(ss', c) > IdxOf(ss, c)
              => /\ IdxOf(ss', c) = IdxOf(ss, c) + 1
                 /\ SolvedOf(ss, c)
                 /\ ev' = "next"
                 /\ selected = c /\ selected' = c]_vars

C2_Witness ==
    /\ ev = "next"
    /\ variant = "plain"
    /\ IdxOf(ss, selected) = 1
    /\ ~ SolvedOf(ss, selected)

\* ------------------------------------------------------------------- C3
\* C3: a submit, Next Stage, re-render or case-switch step changes no
\* session key of a case file other than the selected one.
C3_OtherCaseUntouched ==
    [][ev' \in {"submit", "next", "none", "select"}
          => \A c \in CaseFiles \ {selected'} : View(ss', c) = View(ss, c)]_vars

C3_Witness ==
    /\ selected = NameA
    /\ ev = "submit"
    /\ AttemptsAt(ss, NameA, 0) # <<>>
    /\ ScoreOf(ss, NameB) > 0
    /\ ShuffleKey(NameB, 1) \in DOMAIN ss
    /\ cases[NameA] = cases[NameB]

\* ------------------------------------------------------------------- C4
\* C4: the history of a case never holds two entries for the same stage.
C4_OneEntryPerStage ==
    \A c \in CaseFiles :
        LET h == HistoryOf(ss, c)
        IN  \A i, j \in 1..Len(h) : h[i].stage_idx = h[j].stage_idx => i = j

C4_Witness ==
    /\ ev = "none"
    /\ SolvedOf(ss, selected)
    /\ IdxOf(ss, selected) = 1
    /\ Len(HistoryOf(ss, selected)) = 2

\* ------------------------------------------------------------------- C5
\* C5: a cached shuffle (option order and correct index) of a case stays as
\* it is in every step that is neither a reset nor a Next Stage on that case.
C5_ShuffleStable ==
    [][\A c \in CaseFiles : \A i \in StageIndices :
          (/\ ShuffleKey(c, i) \in DOMAIN ss
           /\ ev' \notin {"reset", "restart"}
           /\ ~ (ev' = "next" /\ selected' = c))
              => /\ ShuffleKey(c, i) \in DOMAIN ss'
                 /\ CorrectKey(c, i) \in DOMAIN ss'
                 /\ ss'[ShuffleKey(c, i)] = ss[ShuffleKey(c, i)]
                 /\ ss'[CorrectKey(c, i)] = ss[CorrectKey(c, i)]]_vars

C5_Witness ==
    /\ variant = "shuffled"
    /\ ev = "submit"
    /\ ~ SolvedOf(ss, selected)
    /\ Len(AttemptsAt(ss, selected, 0)) = 2
    /\ ShuffleKey(selected, 0) \in DOMAIN ss
    /\ ss[ShuffleKey(selected, 0)] # cases[selected].stages[1].options

\* ------------------------------------------------------------------- C6
\* the states of the keys of c after the first run of a never opened case
FreshViews(c) == {View(o.st, c) : o \in Script(EmptyDict, c, "none", NoChoice)}

\* C6: in every reachable state reset_case_state leaves the nine fields of
\* the case at their defaults and no shuffle cache for it, which is the
\* state the defaults give a never opened case, and a second reset changes
\* nothing; after a Reset or Restart click the case is as after the first
\* run of a never opened case.
C6_ResetComplete ==
    /\ \A c \in CaseFiles :
          StructureOK(cases[c]) =>
              LET r == reset_case_state(ss, c)
              IN  /\ View(r, c) = InitDefaults(EmptyDict, c)
                  /\ reset_case_state(r, c) = r
    /\ ev \in {"reset", "restart"} => View(ss, selected) \in FreshViews(selected)

C6_Witness ==
    /\ variant = "shuffled"
    /\ ev = "restart"
    /\ cases[selected] = TwoStageCase
    /\ View(ss, selected) \in FreshViews(selected)

\* ------------------------------------------------------------------- C7
\* C7: every history entry carries the number of submissions made on its
\* stage (at least one), the last of them is the correct display index and
\* the earlier ones are not.
C7_AttemptsCount ==
    \A c \in CaseFiles :
        LET h == HistoryOf(ss, c)
        IN  \A k \in 1..Len(h) :
                LET a == AttemptsAt(ss, c, h[k].stage_idx)
                IN  /\ h[k].attempts_count = Len(a)
                    /\ h[k].attempts_count >= 1
                    /\ a[Len(a)] = h[k].chosen_idx
                    /\ \A j \in 1..(Len(a) - 1) : a[j] # h[k].chosen_idx

C7_Witness ==
    /\ variant = "shuffled"
    /\ Len(HistoryOf(ss, selected)) = 2
    /\ HistoryOf(ss, selected)[1].attempts_count = 2
    /\ HistoryOf(ss, selected)[2].attempts_count = 1

\* ------------------------------------------------------------------- C8
HasBadCorrect(c) ==
    /\ StructureOK(cases[c])
    /\ \E i \in 1..NStages(c) :
          LET st == cases[c].stages[i]
          IN  ~ (0 <= st.correct /\ st.correct < Len(st.options))

\* C8: a case with a stage whose correct index is out of range is rejected
\* when it is loaded: no session key is created for it and no submission on
\* it is recorded or judged.
C8_BadCorrectRejected ==
    \A c \in CaseFiles :
        HasBadCorrect(c) => OwnKeys(c) \cap DOMAIN ss = {}

\* ------------------------------------------------------------------- C9
\* C9: while a case is solved or complete no step other than a reset
\* changes its score or attempts; the score grows only by one full credit,
\* in a step that takes the current stage from unsolved to solved; so the
\* score never exceeds one credit per stage reached.
C9_NoSubmissionWhenSolved ==
    /\ [][\A c \in CaseFiles :
            /\ ((SolvedOf(ss, c) \/ (Opened(ss, c) /\ IdxOf(ss, c) >= NStages(c)))
                    /\ ev' \notin {"reset", "restart"})
                 => /\ ScoreOf(ss', c) = ScoreOf(ss, c)
                    /\ AttemptsOf(ss', c) = AttemptsOf(ss, c)
            /\ ScoreOf(ss', c) > ScoreOf(ss, c)
                 => /\ ScoreOf(ss', c) = ScoreOf(ss, c) + FullCredit
                    /\ ~ SolvedOf(ss, c) /\ SolvedOf(ss', c)
                    /\ IdxOf(ss', c) = IdxOf(ss, c)
                    /\ ev' = "submit" /\ selected' = c]_vars
    /\ [](\A c \in CaseFiles :
            ScoreOf(ss, c)
              <= FullCredit * (IdxOf(ss, c) + (IF SolvedOf(ss, c) THEN 1 ELSE 0)))

C9_Witness ==
    /\ ev = "select"
    /\ SolvedOf(ss, selected)
    /\ "form" \notin page
    /\ "next" \in page
    /\ ScoreOf(ss, selected) = 2 * FullCredit

\* ------------------------------------------------------------------ C10
\* C10: when the last submission on the current stage of a case did not
\* resolve to a display option (index -1) it was recorded as the attempt -1
\* and judged incorrect: the stage is unsolved, the score holds no credit
\* for it and the hint is the wrong-answer feedback of the stage.
C10_UnresolvedIsIncorrect ==
    \A c \in CaseFiles :
        sget(ss, c, "last_submitted_idx", <<>>) = <<-1>>
            => LET i == IdxOf(ss, c)
                   a == AttemptsAt(ss, c, i)
               IN  /\ a # <<>> /\ a[Len(a)] = -1
                   /\ ~ SolvedOf(ss, c)
                   /\ ScoreOf(ss, c) = FullCredit * i
                   /\ HintOf(ss, c) = cases[c].stages[i + 1].feedback_wrong

\* ------------------------------------------------------------------ C11
\* the three ways a loaded structure fails the basic validation
BadStructure(c) == ~ cases[c].isDict \/ ~ cases[c].hasTitle \/ ~ cases[c].hasStages

\* C11: a case file whose structure is not a mapping, or lacks title or
\* stages, never gets a session key: the script stops before the defaults.
C11_BadStructureNoState ==
    \A c \in CaseFiles : BadStructure(c) => OwnKeys(c) \cap DOMAIN ss = {}

C11_Witness ==
    /\ variant \in Variants
    /\ ev = "select"
    /\ BadStructure(selected)
    /\ page = {}
    /\ \E c \in CaseFiles : Opened(ss, c)

\* ------------------------------------------------------------------ C12
\* C12: a correct submission in the session scripts adds exactly 1.0 to the
\* score whatever the number of earlier attempts; in the console script an
\* answer adds 1 when it is the first of its stage and correct, 0.5 when it
\* is the retry and correct, and 0 otherwise, so the score stays within
\* [0, number of stages passed] in steps of 0.5.
C12_CreditPolicy ==
    /\ [][\A c \in CaseFiles :
            (ev' = "submit" /\ selected' = c /\ SolvedOf(ss', c))
                => ScoreOf(ss', c) = ScoreOf(ss, c) + FullCredit]_vars
    /\ [][creads' # creads =>
           (LET correct == ccase.stages[ci + 1].correct
                ans == IF cin'.ok THEN cin'.n ELSE -1
            IN  cscore' - cscore =
                    IF cpc = "first" /\ ans = correct THEN FullCredit
                    ELSE IF cpc = "retry" /\ ans = correct THEN HalfCredit
                    ELSE 0)]_vars
    /\ [](variant = "console" =>
            /\ 0 <= cscore /\ cscore <= FullCredit * ci
            /\ ci <= Len(ccase.stages))

C12_Witness ==
    /\ variant = "console"
    /\ cpc = "done"
    /\ ci = 2
    /\ creads = 3
    /\ cscore = FullCredit + HalfCredit

\* ------------------------------------------------------------------ C13
\* b is a reordering of a
IsPermutation(a, b) ==
    /\ Len(a) = Len(b)
    /\ \A x \in Range(a) \cup Range(b) :
          Cardinality({i \in 1..Len(a) : a[i] = x})
              = Cardinality({i \in 1..Len(b) : b[i] = x})

\* C13: after a submission on a stage with an in-range correct index the
\* stage is solved exactly when the submitted text is the text of
\* options[correct], duplicates included, and the shuffled display is a
\* permutation of the stage's options.
C13_CorrectTextIsCorrect ==
    \A c \in CaseFiles :
        (/\ variant \in Variants /\ ev = "submit" /\ selected = c
         /\ IdxOf(ss, c) < NStages(c)
         /\ ValidStage(cases[c].stages[IdxOf(ss, c) + 1]))
            => LET i == IdxOf(ss, c)
                   st == cases[c].stages[i + 1]
                   opts == Options(ss, c, st, i)
                   a == AttemptsAt(ss, c, i)
                   last == a[Len(a)]
               IN  /\ last >= 0
                   /\ SolvedOf(ss, c) <=> (opts[last + 1] = st.options[st.correct + 1])
                   /\ IsPermutation(st.options, opts)

\* ------------------------------------------------------------------ C14
\* C14: for every choice the form offers, the submission code appends the
\* attempt to the current stage only, leaves stage_idx and history alone,
\* and either adds the credit, sets stage_solved and clears the hint
\* (correct) or sets the hint to the stage's feedback and leaves score and
\* stage_solved (incorrect); a Submit step adds one attempt and keeps
\* stage_idx.
C14_SubmissionEffects ==
    /\ []((variant \in Variants /\ "form" \in page) =>
            LET c == selected
                i == IdxOf(ss, c)
                st == cases[c].stages[i + 1]
                opts == Options(ss, c, st, i)
                k == CorrectIdx(ss, c, st, i)
            IN  \A choice \in RadioChoices(opts) :
                    LET s2 == SubmitEffect(ss, c, st, i, opts, k, choice)
                        a == IndexOf(opts, choice)
                    IN  /\ AttemptsAt(s2, c, i) = Append(AttemptsAt(ss, c, i), a)
                        /\ \A j \in StageIndices \ {i} :
                              AttemptsAt(s2, c, j) = AttemptsAt(ss, c, j)
                        /\ IdxOf(s2, c) = i
                        /\ HistoryOf(s2, c) = HistoryOf(ss, c)
                        /\ (a = k) => /\ ScoreOf(s2, c) = ScoreOf(ss, c) + FullCredit
                                      /\ SolvedOf(s2, c)
                                      /\ HintOf(s2, c) = ""
                        /\ (a # k) => /\ ScoreOf(s2, c) = ScoreOf(ss, c)
                                      /\ ~ SolvedOf(s2, c)
                                      /\ HintOf(s2, c) = st.feedback_wrong)
    /\ [][ev' = "submit" =>
           (LET c == selected'
                i == IdxOf(ss, c)
            IN  /\ IdxOf(ss', c) = i
                /\ Len(AttemptsAt(ss', c, i)) = Len(AttemptsAt(ss, c, i)) + 1
                /\ SolvedOf(ss', c) \/ HintOf(ss', c) = cases[c].stages[i + 1].feedback_wrong)]_vars

C14_Witness ==
    /\ ev = "submit"
    /\ "form" \in page
    /\ IdxOf(ss, selected) = 1
    /\ HintOf(ss, selected) = "h1"
    /\ Len(AttemptsAt(ss, selected, 1)) = 1
    /\ ScoreOf(ss, selected) = FullCredit

\* ------------------------------------------------------------------ C15
\* C15: a case holds at most one cached shuffle, the one of its current
\* stage (none once complete), and the first run after a reset can produce
\* every ordering of the first stage's options, not only the cached one.
C15_OneCachePerCase ==
    \A c \in CaseFiles :
        /\ \A i \in StageIndices :
              (ShuffleKey(c, i) \in DOMAIN ss \/ CorrectKey(c, i) \in DOMAIN ss)
                  => /\ i = IdxOf(ss, c)
                     /\ i < NStages(c)
                     /\ ShuffleKey(c, i) \in DOMAIN ss
                     /\ CorrectKey(c, i) \in DOMAIN ss
        /\ (variant = "shuffled" /\ Opened(ss, c) /\ NStages(c) > 0)
              => {o.st[ShuffleKey(c, 0)] :
                     o \in Script(reset_case_state(ss, c), c, "none", NoChoice)}
                   = Shuffles(cases[c].stages[1].options)

C15_Witness ==
    /\ variant = "shuffled"
    /\ ev = "next"
    /\ IdxOf(ss, selected) = 1
    /\ ShuffleKey(selected, 1) \in DOMAIN ss
    /\ ShuffleKey(selected, 0) \notin DOMAIN ss

C17_StateInvariant ==
    \A c \in CaseFiles :
        Opened(ss, c) =>
            LET solved == IF SolvedOf(ss, c) THEN 1 ELSE 0
            IN  /\ 0 <= IdxOf(ss, c) /\ IdxOf(ss, c) <= NStages(c)
                /\ IdxOf(ss, c) = NStages(c) => ~ SolvedOf(ss, c)
                /\ ScoreOf(ss, c) = FullCredit * (IdxOf(ss, c) + solved)
                /\ ScoreOf(ss, c) <= FullCredit * NStages(c)

C17_Witness ==
    /\ variant = "plain"
    /\ NStages(selected) = 2
    /\ IdxOf(ss, selected) = 2
    /\ ScoreOf(ss, selected) = 2 * FullCredit
    /\ "restart" \in page

\* ------------------------------------------------------------------ C18
\* C18: a Reset or Restart click on the selected case file changes no
\* session key of any other case file.
C18_ResetOnlyOwnKeys ==
    [][ev' \in {"reset", "restart"}
          => \A c \in CaseFiles \ {selected'} : View(ss', c) = View(ss, c)]_vars

\* ------------------------------------------------------------------ C19
DistinctTexts(c) ==
    \A i \in 1..NStages(c) :
        LET o == cases[c].stages[i].options
        IN  \A j, k \in 1..Len(o) : o[j] = o[k] => j = k

\* what the user can observe of a case in terms of option texts
Obs(s, c) ==
    [stage_idx |-> IdxOf(s, c),
     score |-> ScoreOf(s, c),
     solved |-> SolvedOf(s, c),
     hint |-> HintOf(s, c),
     counts |-> [i \in 0..(NStages(c) - 1) |-> Len(AttemptsAt(s, c, i))],
     chosen |-> [k \in 1..Len(HistoryOf(s, c)) |-> HistoryOf(s, c)[k].chosen]]

\* the text submitted by the last Submit step on the current stage
SubmittedText(s, c) ==
    LET i == IdxOf(s, c)
        a == AttemptsAt(s, c, i)
    IN  Options(s, c, cases[c].stages[i + 1], i)[a[Len(a)] + 1]

\* the observable state after the event e on the case, by texts alone
ObsStep(o, s2, c, e) ==
    IF e \in {"reset", "restart"} THEN Obs(EmptyDict, c)
    ELSE IF e = "next"
    THEN [o EXCEPT !.stage_idx = @ + 1, !.solved = FALSE, !.hint = ""]
    ELSE IF e = "submit"
    THEN LET st == cases[c].stages[o.stage_idx + 1]
         IN  IF SubmittedText(s2, c) = st.options[st.correct + 1]
             THEN [o EXCEPT !.counts[o.stage_idx] = @ + 1,
                            !.score = @ + FullCredit,
                            !.solved = TRUE,
                            !.hint = "",
                            !.chosen = Append(@, SubmittedText(s2, c))]
             ELSE [o EXCEPT !.counts[o.stage_idx] = @ + 1,
                            !.hint = st.feedback_wrong]
    ELSE o

\* C19: for a valid case with pairwise distinct option texts, what the user
\* observes of the case follows, in both session scripts, from the events
\* on that case and the submitted texts alone (same stage_idx, score,
\* stage_solved, last_hint, attempt counts and chosen texts in both), and
\* events on another case do not change it.
C19_VariantsEquivalent ==
    [][(variant \in Variants) =>
          \A c \in CaseFiles :
              (ValidCase(c) /\ DistinctTexts(c))
                  => Obs(ss', c) = (IF selected' = c
                                    THEN ObsStep(Obs(ss, c), ss', c, ev')
                                    ELSE Obs(ss, c))]_vars

\* ------------------------------------------------------------------ C20
\* C20: in no reachable state of a valid case is the displayed stage
\* unsolvable: the form always offers the text of options[correct], and
\* submitting it is judged correct.
C20_EveryStageSolvable ==
    (variant \in Variants /\ "form" \in page /\ ValidCase(selected)) =>
        LET c == selected
            i == IdxOf(ss, c)
            st == cases[c].stages[i + 1]
            opts == Options(ss, c, st, i)
            text == st.options[st.correct + 1]
        IN  /\ text \in RadioChoices(opts)
            /\ IndexOf(opts, text) = CorrectIdx(ss, c, st, i)

\* ------------------------------------------------------------------ C21
\* C21: the console script, on a case with title and stages, never ends in
\* an exception and walks the stages in order, one at a time: the first
\* answer of a stage moves on exactly when it parses to the correct index
\* (an unparsable line is wrong and leads to the retry), the retry moves on
\* to the next stage whatever it was, every answer read belongs to the
\* stage being visited, so at most two are read per stage and at most 2N in
\* all, and the run is over exactly when the N stages are passed.
C21_ConsoleTerminates ==
    /\ [][(variant = "console" /\ creads' # creads) =>
           (LET stage == ccase.stages[ci + 1]
            IN  /\ creads' = creads + 1
                /\ cpc \in {"first", "retry"}
                /\ cpc = "first" =>
                      IF cin'.ok /\ cin'.n = stage.correct
                      THEN ci' = ci + 1
                      ELSE ci' = ci /\ cpc' = "retry"
                /\ cpc = "retry" =>
                      ci' = ci + 1 /\ cpc' \in {"first", "done"})]_vars
    /\ [][(variant = "console") =>
              (ci' \in {ci, ci + 1} /\ (ci' = ci + 1 => creads' # creads))]_vars
    /\ [](variant = "console" /\ StructureOK(ccase) =>
            /\ cpc # "crashed"
            /\ ci <= Len(ccase.stages)
            /\ (cpc = "done") = (cpc # "start" /\ ci = Len(ccase.stages))
            /\ ci <= creads
            /\ creads <= 2 * ci + (IF cpc = "retry" THEN 1 ELSE 0)
            /\ creads <= 2 * Len(ccase.stages))

====
